---- MODULE Spec2Model ----
(***************************************************************************)
(* Model of the MCP host loops of suckgeun/mcp_sample:                     *)
(*   host/src/agent_chat_with_google_search.py  (interactive, variant      *)
(*                                               "chat")                   *)
(*   host/src/agent_company_analyze.py          (autonomous, variant       *)
(*                                               "analyze")                *)
(* Strings the code takes apart (tool names, user text, assistant text)    *)
(* are sequences of one-character strings; Python exceptions are named by  *)
(* their class; None is the string "None" (or 0 for a response id).        *)
(***************************************************************************)
EXTENDS Integers, Sequences, FiniteSets, TLC

VARIABLES
    variant,           \* "chat" | "analyze": which chat_loop runs
    servers,           \* Dict[str, MCPServer], in insertion order
    stack,             \* AsyncExitStack: the entered contexts, oldest first
    running,           \* server names whose subprocess is alive
    pc,                \* position of chat_loop
    i,                 \* init_servers: index of the server being started
    tools,             \* openai_tools / tools: the catalog
    origin,            \* for each catalog entry, the provider and tool it was built from
    previous_id,       \* previous_id (None = 0)
    call_kwargs,       \* the request about to be sent to the model
    response,          \* the last Response returned by the model
    func_call_result,  \* analyze: results collected for this response
    j,                 \* analyze: index into output_func_call
    printed,           \* assistant texts printed for the current response
    dumped,            \* batch loop: message texts in the list dump of the current response
    dispatched,        \* dispatch_tool_call calls made for the current response, with outcome
    invoked,           \* session.call_tool calls made for the current response
    nreq,              \* number of model calls issued
    turn,              \* chat: per-user-turn counts (calls, dispatches, tool responses)
    user_text,         \* what input() returned last ("None" before the first input)
    inflight,          \* the awaited calls that have not returned yet
    exc                \* the exception that left chat_loop ("None" if none)

vars == <<variant, servers, stack, running, pc, i, tools, origin, previous_id, call_kwargs,
          response, func_call_result, j, printed, dispatched, invoked, nreq, turn, user_text,
          inflight, dumped, exc>>

-----------------------------------------------------------------------------
(* Bounds *)

MaxModelCalls == 3     \* model calls per run of the loops
MaxItems == 2          \* output items per model response
MaxServers == 2        \* providers of a registry configuration
MaxTools == 2          \* tools one provider lists
MaxNameLen == 5        \* length of a tool-call name the oracle makes up
MaxDispatchCalls == 2  \* model calls per run when exercising the dispatcher

-----------------------------------------------------------------------------
(* Strings *)

Range(s) == {s[k] : k \in DOMAIN s}

\* Python: sub in s
Contains(s, sub) ==
    \E k \in 1..(Len(s) - Len(sub) + 1) : SubSeq(s, k, k + Len(sub) - 1) = sub

\* Python: s.split(sep), sep non-empty: cut at the leftmost occurrences
RECURSIVE split(_, _)
split(s, sep) ==
    LET hits == {k \in 1..(Len(s) - Len(sep) + 1) : SubSeq(s, k, k + Len(sep) - 1) = sep}
    IN  IF hits = {} THEN <<s>>
        ELSE LET k == CHOOSE h \in hits : \A m \in hits : h <= m
             IN  <<SubSeq(s, 1, k - 1)>> \o split(SubSeq(s, k + Len(sep), Len(s)), sep)

Whitespace == {" ", "\t", "\n"}

\* Python: s.strip()
RECURSIVE strip(_)
strip(s) ==
    IF s = <<>> THEN s
    ELSE IF Head(s) \in Whitespace THEN strip(Tail(s))
    ELSE IF s[Len(s)] \in Whitespace THEN strip(SubSeq(s, 1, Len(s) - 1))
    ELSE s

lower_char(c) ==
    CASE c = "E" -> "e" [] c = "X" -> "x" [] c = "I" -> "i" [] c = "T" -> "t"
      [] c = "Q" -> "q" [] c = "U" -> "u" [] c = "H" -> "h"
      [] OTHER -> c

\* Python: s.lower()
lower(s) == [k \in DOMAIN s |-> lower_char(s[k])]

\* All sequences over S of length at most n
SeqsUpTo(S, n) == UNION {[1..m -> S] : m \in 0..n}

-----------------------------------------------------------------------------
(* Constants of the source *)

TOOL_SEPARATOR == <<"_", "_">>
FINAL_TOOL_NAME == <<"f","i","n","a","l","_","a","n","s","w","e","r">>

fetch == <<"f","e","t","c","h">>
google_search == <<"g","o","o","g","l","e","_","s","e","a","r","c","h">>

MCPServer(name) == [name |-> name, session |-> "None"]

\* build_servers(RAW_CONFIG): the two configured providers, in dict order
RAW_CONFIG == <<MCPServer(fetch), MCPServer(google_search)>>

-----------------------------------------------------------------------------
(* Tool registry *)

mcp_tool_to_openai_tool(tool, server_name) ==
    [type |-> "function", name |-> server_name \o TOOL_SEPARATOR \o tool.name]

\* (mutant) only the context entered last is released
aclose_newest(stk) == IF stk = <<>> THEN {} ELSE {stk[Len(stk)]}

\* What leaving the `async with AsyncExitStack()` block releases: every
\* context entered so far.
aclose(stk) == Range(stk)

\* Control leaves the `async with AsyncExitStack()` block of chat_loop by a
\* return (how = "returned") or by an exception e (how = "raised"), with
\* contexts stk entered, sessions srv and subprocesses run: __aexit__ runs
\* before chat_loop is left.
Leave(how, e, stk, srv, run) ==
    LET released == aclose(stk)
    IN  /\ pc' = how
        /\ exc' = e
        /\ stack' = SelectSeq(stk, LAMBDA c : c \notin released)
        /\ running' = run \ {c.server : c \in {r \in released : r.ctx = "stdio_client"}}
        /\ servers' = [k \in DOMAIN srv |->
                IF [ctx |-> "ClientSession", server |-> srv[k].name] \in released
                THEN [srv[k] EXCEPT !.session = "closed"]
                ELSE srv[k]]

\* The contexts init_servers enters for one server
Entered(name) == <<[ctx |-> "stdio_client", server |-> name],
                   [ctx |-> "ClientSession", server |-> name]>>

\* init_servers, one iteration of `for server in servers.values()` in which
\* launch, handshake and list_tools succeed; the provider lists `listing`.
InitServer(Listings) ==
    /\ pc = "init_servers"
    /\ i <= Len(servers)
    /\ \E listing \in Listings :
         /\ stack' = stack \o Entered(servers[i].name)
         /\ running' = running \cup {servers[i].name}
         /\ servers' = [servers EXCEPT ![i].session = "open"]
         /\ tools' = tools \o [k \in DOMAIN listing |->
                                  mcp_tool_to_openai_tool(listing[k], servers[i].name)]
         /\ origin' = origin \o [k \in DOMAIN listing |->
                                  [server |-> servers[i].name, tool |-> listing[k].name]]
    /\ i' = i + 1
    /\ UNCHANGED <<dumped, user_text, inflight, variant, pc, previous_id, call_kwargs,
                   response, func_call_result, j, printed, dispatched, invoked, nreq,
                   turn, exc>>

\* init_servers, an iteration that fails: the subprocess does not launch
\* (nothing entered for it), or initialize() / list_tools() raises after both
\* contexts were entered. The exception leaves chat_loop.
InitServerFails ==
    /\ pc = "init_servers"
    /\ i <= Len(servers)
    /\ \E step \in {"stdio_client", "initialize", "list_tools"} :
         IF step = "stdio_client"
         THEN Leave("raised", "OSError", stack, servers, running)
         ELSE Leave("raised", "McpError",
                    stack \o Entered(servers[i].name),
                    [servers EXCEPT ![i].session = "open"],
                    running \cup {servers[i].name})
    /\ UNCHANGED <<dumped, user_text, inflight, origin, variant, i, tools, previous_id,
                   call_kwargs, response, func_call_result, j, printed, dispatched,
                   invoked, nreq, turn>>

\* init_servers returns the catalog; chat_loop sets previous_id = None.
InitServersReturn ==
    /\ pc = "init_servers"
    /\ i > Len(servers)
    /\ pc' = "input"
    /\ previous_id' = 0
    /\ UNCHANGED <<dumped, user_text, inflight, origin, variant, servers, stack, running,
                   i, tools, call_kwargs, response, func_call_result, j, printed,
                   dispatched, invoked, nreq, turn, exc>>

-----------------------------------------------------------------------------
(* Tool invocation dispatcher *)

\* Python: json.loads(s) on the argument payloads the oracle sends. A JSON
\* object is the set of its <<key, value>> pairs.
json_loads(s) ==
    CASE s = "{}"              -> [ok |-> TRUE, value |-> {}]
      [] s = "{\"q\": \"x\"}"  -> [ok |-> TRUE, value |-> {<<"q", "x">>}]
      [] OTHER                 -> [ok |-> FALSE, value |-> {}]

Raises(e, calls) == [raised |-> e, value |-> "None", invoked |-> calls]

\* (mutant) a failed call_tool is tried once more
dispatch_tool_call_retry(tool_call, srv, env) ==
    LET args == json_loads(tool_call.arguments)
        parts == split(tool_call.name, TOOL_SEPARATOR)
    IN  IF ~args.ok THEN Raises("JSONDecodeError", <<>>)
        ELSE IF Len(parts) # 2 THEN Raises("ValueError", <<>>)
        ELSE IF ~\E k \in DOMAIN srv : srv[k].name = parts[1] THEN Raises("KeyError", <<>>)
        ELSE LET call == [server |-> parts[1], name |-> parts[2], arguments |-> args.value]
             IN  IF env.raises THEN Raises("McpError", <<call, call>>)
                 ELSE IF env.content = <<>> THEN Raises("IndexError", <<call>>)
                 ELSE [raised |-> "None", value |-> env.content[1], invoked |-> <<call>>]

\* dispatch_tool_call(tool_call, servers). env is what the provider does
\* with the call: env.raises (call_tool raises), else it returns env.content.
\* The result names the exception raised ("None" if none), the value
\* returned, and the session.call_tool calls made.
dispatch_tool_call(tool_call, srv, env) ==
    LET args == json_loads(tool_call.arguments)
        parts == split(tool_call.name, TOOL_SEPARATOR)
    IN  IF ~args.ok THEN Raises("JSONDecodeError", <<>>)
        ELSE IF Len(parts) # 2 THEN Raises("ValueError", <<>>)
        ELSE IF ~\E k \in DOMAIN srv : srv[k].name = parts[1] THEN Raises("KeyError", <<>>)
        ELSE LET call == [server |-> parts[1], name |-> parts[2], arguments |-> args.value]
             IN  IF env.raises THEN Raises("McpError", <<call>>)
                 ELSE IF env.content = <<>> THEN Raises("IndexError", <<call>>)
                 ELSE [raised |-> "None", value |-> env.content[1], invoked |-> <<call>>]

\* The record kept of one dispatch_tool_call call
Dispatched(tool_call, d) == [tool_call |-> tool_call, raised |-> d.raised, value |-> d.value]

\* What a provider may do with a call_tool request
ProviderReplies ==
    {[raises |-> TRUE, content |-> <<>>],
     [raises |-> FALSE, content |-> <<>>],
     [raises |-> FALSE, content |-> <<"result">>],
     [raises |-> FALSE, content |-> <<"result", "more">>]}

-----------------------------------------------------------------------------
(* Model oracle *)

IsToolCall(item) == item.type = "function_call"     \* isinstance(.., ResponseFunctionToolCall)
IsMessage(item) == item.type = "message"            \* isinstance(.., ResponseOutputMessage)

Message(text) == [type |-> "message", text |-> text]
ToolCall(name, arguments) == [type |-> "function_call", name |-> name, arguments |-> arguments]

\* The oracle tags the tool calls of response id with distinct call ids.
WithCallIds(id, output) ==
    [k \in DOMAIN output |->
        IF IsToolCall(output[k])
        THEN [type |-> "function_call", name |-> output[k].name,
              arguments |-> output[k].arguments, call_id |-> <<id, k>>]
        ELSE output[k]]

\* An awaited call in flight: to the model, or to a provider's session
ModelAwait == [kind |-> "responses.create"]
ToolAwait(server) == [kind |-> "call_tool", server |-> server]

\* (mutant) the call is not waited for: it stays in flight
Awaited_not(fl, what) == fl

\* The calls in flight once the awaited call `what` has returned or raised
Awaited(fl, what) ==
    LET hits == {k \in DOMAIN fl : fl[k] = what}
        k == CHOOSE h \in hits : \A m \in hits : h <= m
    IN  IF hits = {} THEN fl
        ELSE SubSeq(fl, 1, k - 1) \o SubSeq(fl, k + 1, Len(fl))

\* client.responses.create(**call_kwargs) is called with the request built.
ModelCallBegin(max) ==
    /\ pc = "call"
    /\ nreq < max
    /\ nreq' = nreq + 1
    /\ inflight' = Append(inflight, ModelAwait)
    /\ pc' = "awaiting_model"
    /\ UNCHANGED <<dumped, user_text, origin, variant, servers, stack, running, i, tools,
                   previous_id, call_kwargs, response, func_call_result, j, printed,
                   dispatched, invoked, turn, exc>>

\* client.responses.create(**call_kwargs) returns a response with output
\* drawn from Outputs.
ModelCall(Outputs, max) ==
    /\ pc = "awaiting_model"
    /\ nreq <= max
    /\ \E output \in Outputs :
         response' = [id |-> nreq, output |-> WithCallIds(nreq, output)]
    /\ inflight' = Awaited(inflight, ModelAwait)
    /\ turn' = [turn EXCEPT !.calls = @ + 1,
                            !.toolresp = IF response'.output # <<>> /\ IsToolCall(response'.output[1])
                                         THEN @ + 1 ELSE @]
    /\ printed' = <<>>
    /\ dumped' = <<>>
    /\ dispatched' = <<>>
    /\ invoked' = <<>>
    /\ pc' = "interpret"
    /\ UNCHANGED <<user_text, nreq, origin, variant, servers, stack, running, i, tools,
                   previous_id, call_kwargs, func_call_result, j, exc>>

\* (mutant) the loop catches the failure and issues the request again
ModelCallFails_retried(max) ==
    /\ pc = "awaiting_model"
    /\ nreq <= max
    /\ inflight' = Awaited(inflight, ModelAwait)
    /\ turn' = [turn EXCEPT !.calls = @ + 1]
    /\ exc' = "APIError"
    /\ pc' = "call"
    /\ UNCHANGED <<dumped, user_text, nreq, origin, variant, i, tools, previous_id,
                   call_kwargs, response, func_call_result, j, printed, dispatched,
                   invoked, stack, servers, running>>

\* client.responses.create raises: nothing in chat_loop catches it.
ModelCallFails(max) ==
    /\ pc = "awaiting_model"
    /\ nreq <= max
    /\ inflight' = Awaited(inflight, ModelAwait)
    /\ turn' = [turn EXCEPT !.calls = @ + 1]
    /\ Leave("raised", "APIError", stack, servers, running)
    /\ UNCHANGED <<dumped, user_text, nreq, origin, variant, i, tools, previous_id,
                   call_kwargs, response, func_call_result, j, printed, dispatched,
                   invoked>>

-----------------------------------------------------------------------------
(* agent_chat_with_google_search.chat_loop *)

\* (mutant) the text is compared as typed
IsQuit_exact(text) ==
    text \in {<<"e","x","i","t">>, <<"q","u","i","t">>}

\* user_text.strip().lower() in {"exit", "quit"}
IsQuit(text) ==
    lower(strip(text)) \in {<<"e","x","i","t">>, <<"q","u","i","t">>}

\* The session.call_tool calls dispatch_tool_call(tool_call, srv) reaches:
\* the providers it awaits, in order.
CallTargets(tool_call, srv) ==
    LET d == dispatch_tool_call(tool_call, srv, [raises |-> FALSE, content |-> <<"result">>])
    IN  [k \in DOMAIN d.invoked |-> ToolAwait(d.invoked[k].server)]

\* (mutant) the loop looks at the last output item
HeadItem_last(r) == r.output[Len(r.output)]

\* The item the while-loop of the chat variant looks at: response.output[0]
HeadItem(r) == r.output[1]

\* input() returns a text that is not a quit command: the request is built.
ChatUserInput(Texts) ==
    /\ variant = "chat"
    /\ pc = "input"
    /\ \E text \in Texts :
         /\ ~IsQuit(text)
         /\ user_text' = text
         /\ call_kwargs' = [input |-> <<[role |-> "user", content |-> text]>>,
                            tools |-> tools,
                            previous_response_id |-> previous_id]
    /\ turn' = [calls |-> 0, dispatches |-> 0, toolresp |-> 0]
    /\ pc' = "call"
    /\ UNCHANGED <<dumped, inflight, origin, servers, stack, running, variant, i, tools,
                   previous_id, response, func_call_result, j, printed, dispatched,
                   invoked, nreq, exc>>

\* input() returns a quit command: break, and chat_loop returns.
ChatUserQuit(Texts) ==
    /\ variant = "chat"
    /\ pc = "input"
    /\ \E text \in Texts : IsQuit(text) /\ user_text' = text
    /\ Leave("returned", "None", stack, servers, running)
    /\ UNCHANGED <<dumped, inflight, origin, variant, i, tools, previous_id, call_kwargs,
                   response, func_call_result, j, printed, dispatched, invoked, nreq,
                   turn>>

\* response.output[0] on an empty output list
ChatEmptyOutput ==
    /\ variant = "chat"
    /\ pc = "interpret"
    /\ response.output = <<>>
    /\ Leave("raised", "IndexError", stack, servers, running)
    /\ UNCHANGED <<dumped, user_text, inflight, origin, variant, i, tools, previous_id,
                   call_kwargs, response, func_call_result, j, printed, dispatched,
                   invoked, nreq, turn>>

\* (mutant) the request continues from the response the last turn ended on
ToolChainRequest_stale(tool_call, tool_output) ==
    [input |-> <<[type |-> "function_call_output",
                  call_id |-> tool_call.call_id,
                  output |-> tool_output]>>,
     tools |-> tools,
     previous_response_id |-> previous_id]

\* (mutant) the request inside the tool chain leaves the tools out
ToolChainRequest_noTools(tool_call, tool_output) ==
    [input |-> <<[type |-> "function_call_output",
                  call_id |-> tool_call.call_id,
                  output |-> tool_output]>>,
     tools |-> <<>>,
     previous_response_id |-> response.id]

\* (mutant) the request repeats the user's message before the tool result
ToolChainRequest_withUser(tool_call, tool_output) ==
    [input |-> <<[role |-> "user", content |-> user_text],
                 [type |-> "function_call_output",
                  call_id |-> tool_call.call_id,
                  output |-> tool_output]>>,
     tools |-> tools,
     previous_response_id |-> response.id]

\* The arguments of the client.responses.create call inside the tool chain
ToolChainRequest(tool_call, tool_output) ==
    [input |-> <<[type |-> "function_call_output",
                  call_id |-> tool_call.call_id,
                  output |-> tool_output]>>,
     tools |-> tools,
     previous_response_id |-> response.id]

\* while isinstance(response.output[0], ResponseFunctionToolCall): the tool
\* call is dispatched, returns, and the request with its output is built.
ChatDispatch ==
    /\ variant = "chat"
    /\ pc = "awaiting_tool"
    /\ \E env \in ProviderReplies :
         LET tool_call == HeadItem(response)
             d == dispatch_tool_call(tool_call, servers, env)
         IN  /\ d.raised = "None"
             /\ dispatched' = Append(dispatched, Dispatched(tool_call, d))
             /\ invoked' = invoked \o d.invoked
             /\ inflight' = Awaited(inflight, ToolAwait(d.invoked[1].server))
             /\ call_kwargs' = ToolChainRequest(tool_call, d.value)
    /\ turn' = [turn EXCEPT !.dispatches = @ + 1]
    /\ pc' = "call"
    /\ UNCHANGED <<dumped, user_text, origin, variant, servers, stack, running, i, tools,
                   previous_id, response, func_call_result, j, printed, nreq, exc>>

\* The same, when dispatch_tool_call raises, before call_tool or out of it:
\* nothing in chat_loop catches it.
ChatDispatchRaises ==
    /\ variant = "chat"
    /\ pc \in {"interpret", "awaiting_tool"}
    /\ response.output # <<>>
    /\ IsToolCall(HeadItem(response))
    /\ \E env \in ProviderReplies :
         LET tool_call == HeadItem(response)
             d == dispatch_tool_call(tool_call, servers, env)
         IN  /\ d.raised # "None"
             /\ (pc = "awaiting_tool") = (d.invoked # <<>>)
             /\ inflight' = IF d.invoked = <<>> THEN inflight
                             ELSE Awaited(inflight, ToolAwait(d.invoked[1].server))
             /\ dispatched' = Append(dispatched, Dispatched(tool_call, d))
             /\ invoked' = invoked \o d.invoked
             /\ Leave("raised", d.raised, stack, servers, running)
    /\ turn' = [turn EXCEPT !.dispatches = @ + 1]
    /\ UNCHANGED <<dumped, user_text, origin, variant, i, tools, previous_id, call_kwargs,
                   response, func_call_result, j, printed, nreq>>

\* The while-loop ends on a message: it is printed and previous_id is set.
ChatMessage ==
    /\ variant = "chat"
    /\ pc = "interpret"
    /\ response.output # <<>>
    /\ ~IsToolCall(HeadItem(response))
    /\ printed' = Append(printed, HeadItem(response).text)
    /\ previous_id' = response.id
    /\ pc' = "input"
    /\ UNCHANGED <<dumped, user_text, inflight, origin, variant, servers, stack, running,
                   i, tools, call_kwargs, response, func_call_result, j, dispatched,
                   invoked, nreq, turn, exc>>

-----------------------------------------------------------------------------
(* agent_company_analyze.chat_loop *)

SYSTEM_PROMPT == <<"4", ".", " ">> \o FINAL_TOOL_NAME     \* the f-string names the marker

output_msg(r) == SelectSeq(r.output, IsMessage)
output_func_call(r) == SelectSeq(r.output, IsToolCall)

\* (mutant) the for-loop has no break
PrintedMessages_all(msgs) == [k \in DOMAIN msgs |-> msgs[k].text]

\* `for obj in output_msg`: the texts printed, up to and including the first
\* one that contains FINAL_TOOL_NAME, where the for-loop breaks.
PrintedMessages(msgs) ==
    LET final == {k \in DOMAIN msgs : Contains(msgs[k].text, FINAL_TOOL_NAME)}
        last  == IF final = {} THEN Len(msgs)
                 ELSE CHOOSE k \in final : \A m \in final : k <= m
    IN  [k \in 1..last |-> msgs[k].text]

\* input() returns (whatever the text): the first request is built.
AnalyzeUserInput(Texts) ==
    /\ variant = "analyze"
    /\ pc = "input"
    /\ \E text \in Texts :
         /\ user_text' = text
         /\ call_kwargs' = [input |-> <<[role |-> "developer", content |-> SYSTEM_PROMPT],
                                        [role |-> "user", content |-> text]>>,
                            tools |-> tools,
                            previous_response_id |-> previous_id]
    /\ pc' = "call"
    /\ UNCHANGED <<dumped, inflight, origin, servers, stack, running, variant, i, tools,
                   previous_id, response, func_call_result, j, printed, dispatched,
                   invoked, nreq, turn, exc>>

\* The response is partitioned, the two lists are dumped, and the message
\* loop runs (to its end or to its break); func_call_result = [] and the dispatch loop starts.
AnalyzeMessages ==
    /\ variant = "analyze"
    /\ pc = "interpret"
    /\ dumped' = [k \in DOMAIN output_msg(response) |-> output_msg(response)[k].text]
    /\ printed' = PrintedMessages(output_msg(response))
    /\ func_call_result' = <<>>
    /\ j' = 1
    /\ pc' = "dispatch"
    /\ UNCHANGED <<user_text, inflight, origin, variant, servers, stack, running, i,
                   tools, previous_id, call_kwargs, response, dispatched, invoked, nreq,
                   turn, exc>>

\* `for obj in output_func_call`: one tool call is dispatched and returns.
AnalyzeDispatch ==
    /\ variant = "analyze"
    /\ pc = "awaiting_tool"
    /\ \E env \in ProviderReplies :
         LET obj == output_func_call(response)[j]
             d == dispatch_tool_call(obj, servers, env)
         IN  /\ d.raised = "None"
             /\ dispatched' = Append(dispatched, Dispatched(obj, d))
             /\ invoked' = invoked \o d.invoked
             /\ inflight' = Awaited(inflight, ToolAwait(d.invoked[1].server))
             /\ func_call_result' = Append(func_call_result,
                                           [type |-> "function_call_output",
                                            call_id |-> obj.call_id,
                                            output |-> d.value])
    /\ j' = j + 1
    /\ pc' = "dispatch"
    /\ UNCHANGED <<dumped, user_text, origin, variant, servers, stack, running, i, tools,
                   previous_id, call_kwargs, response, printed, nreq, turn, exc>>

\* The same, when dispatch_tool_call raises, before call_tool or out of it:
\* nothing in chat_loop catches it.
AnalyzeDispatchRaises ==
    /\ variant = "analyze"
    /\ pc \in {"dispatch", "awaiting_tool"}
    /\ j <= Len(output_func_call(response))
    /\ \E env \in ProviderReplies :
         LET obj == output_func_call(response)[j]
             d == dispatch_tool_call(obj, servers, env)
         IN  /\ d.raised # "None"
             /\ (pc = "awaiting_tool") = (d.invoked # <<>>)
             /\ inflight' = IF d.invoked = <<>> THEN inflight
                             ELSE Awaited(inflight, ToolAwait(d.invoked[1].server))
             /\ dispatched' = Append(dispatched, Dispatched(obj, d))
             /\ invoked' = invoked \o d.invoked
             /\ Leave("raised", d.raised, stack, servers, running)
    /\ UNCHANGED <<dumped, user_text, origin, variant, i, tools, previous_id, call_kwargs,
                   response, func_call_result, j, printed, nreq, turn>>

\* End of the while-body: previous_id = response.id, the collected results
\* become the input, and the next iteration adds previous_response_id.
AnalyzeNextRequest ==
    /\ variant = "analyze"
    /\ pc = "dispatch"
    /\ j > Len(output_func_call(response))
    /\ previous_id' = response.id
    /\ call_kwargs' = [call_kwargs EXCEPT !.input = func_call_result,
                                          !.previous_response_id = response.id]
    /\ pc' = "call"
    /\ UNCHANGED <<dumped, user_text, inflight, origin, variant, servers, stack, running,
                   i, tools, response, func_call_result, j, printed, dispatched, invoked,
                   nreq, turn, exc>>

-----------------------------------------------------------------------------
(* Both loops: dispatch_tool_call up to its await *)

\* The tool call the loop is about to dispatch
CurrentToolCall ==
    IF variant = "chat" THEN HeadItem(response) ELSE output_func_call(response)[j]

\* dispatch_tool_call parses the arguments, splits the name, finds the
\* session and calls session.call_tool, whose result it awaits.
CallToolBegin ==
    /\ \/ variant = "chat" /\ pc = "interpret" /\ response.output # <<>>
                            /\ IsToolCall(HeadItem(response))
       \/ variant = "analyze" /\ pc = "dispatch" /\ j <= Len(output_func_call(response))
    /\ CallTargets(CurrentToolCall, servers) # <<>>
    /\ inflight' = inflight \o CallTargets(CurrentToolCall, servers)
    /\ pc' = "awaiting_tool"
    /\ UNCHANGED <<dumped, user_text, origin, variant, servers, stack, running, i, tools,
                   previous_id, call_kwargs, response, func_call_result, j, printed,
                   dispatched, invoked, nreq, turn, exc>>

-----------------------------------------------------------------------------
(* The runs checked *)

InitWith(Variants, Configs) ==
    /\ variant \in Variants
    /\ servers \in Configs
    /\ stack = <<>>
    /\ running = {}
    /\ pc = "init_servers"
    /\ i = 1
    /\ tools = <<>>
    /\ origin = <<>>
    /\ previous_id = 0
    /\ call_kwargs = [input |-> <<>>, tools |-> <<>>, previous_response_id |-> 0]
    /\ response = [id |-> 0, output |-> <<>>]
    /\ func_call_result = <<>>
    /\ j = 1
    /\ printed = <<>>
    /\ dumped = <<>>
    /\ dispatched = <<>>
    /\ invoked = <<>>
    /\ nreq = 0
    /\ turn = [calls |-> 0, dispatches |-> 0, toolresp |-> 0]
    /\ user_text = "None"
    /\ inflight = <<>>
    /\ exc = "None"

\* --- the two loops, on the configured providers

ok == <<"o", "k">>
final_report == <<"#", " ">> \o FINAL_TOOL_NAME \o <<":">>
almost_final == <<"f","i","n","a","l"," ","a","n","s","w","e","r">>

LoopItems ==
    {Message(ok), Message(final_report), Message(almost_final),
     ToolCall(fetch \o TOOL_SEPARATOR \o fetch, "{}"),
     ToolCall(<<"n","o">> \o TOOL_SEPARATOR \o fetch, "{}"),
     ToolCall(fetch \o TOOL_SEPARATOR \o fetch, "{\"q\": ")}

LoopOutputs == SeqsUpTo(LoopItems, MaxItems)

hi == <<"h", "i">>
quit == <<"q", "u", "i", "t">>
LoopTexts == {hi, quit}

LoopListings == {<<[name |-> fetch]>>, <<[name |-> google_search]>>}

Init == InitWith({"chat", "analyze"}, {RAW_CONFIG})

Next ==
    \/ InitServer(LoopListings)
    \/ InitServerFails
    \/ InitServersReturn
    \/ ChatUserInput(LoopTexts)
    \/ ChatUserQuit(LoopTexts)
    \/ AnalyzeUserInput(LoopTexts)
    \/ ModelCallBegin(MaxModelCalls)
    \/ ModelCall(LoopOutputs, MaxModelCalls)
    \/ ModelCallFails(MaxModelCalls)
    \/ ChatEmptyOutput
    \/ CallToolBegin
    \/ ChatDispatch
    \/ ChatDispatchRaises
    \/ ChatMessage
    \/ AnalyzeMessages
    \/ AnalyzeDispatch
    \/ AnalyzeDispatchRaises
    \/ AnalyzeNextRequest

Spec == Init /\ [][Next]_vars

\* --- the registry, on provider and tool names of every shape

a == <<"a">>
b == <<"b">>

RegistryServerNames == {a, a \o <<"_">>, a \o TOOL_SEPARATOR \o b}
RegistryToolNames == {b, <<"_">> \o b, b \o TOOL_SEPARATOR \o b}

\* Dict keys are distinct
RegistryConfigs ==
    {[k \in DOMAIN names |-> MCPServer(names[k])] :
        names \in {s \in SeqsUpTo(RegistryServerNames, MaxServers) :
                      \A x, y \in DOMAIN s : x # y => s[x] # s[y]}}

RegistryListings ==
    {[k \in DOMAIN names |-> [name |-> names[k]]] :
        names \in SeqsUpTo(RegistryToolNames, MaxTools)}

InitRegistry == InitWith({"chat", "analyze"}, RegistryConfigs)

NextRegistry ==
    \/ InitServer(RegistryListings)
    \/ InitServerFails
    \/ InitServersReturn

SpecRegistry == InitRegistry /\ [][NextRegistry]_vars

\* --- the dispatcher, on tool-call names of every shape

DispatchConfigs ==
    {<<MCPServer(a)>>, <<MCPServer(a \o <<"_">>), MCPServer(a)>>}

DispatchNames == SeqsUpTo({"a", "_"}, MaxNameLen)

\* What the user may type: ordinary text, the quit words in several
\* spellings, and texts that only contain a quit word
UserTexts ==
    {hi, <<"e","x","i","t">>, quit, <<" ","Q","u","I","T">>, <<"\t","E","x","i","t"," ">>,
     <<"e","x","i","t","s">>, <<"q","u","i","t"," ","i","t">>, <<"e","x"," ","i","t">>}

DispatchOutputs ==
    {<<ToolCall(name, arguments)>> :
        name \in DispatchNames, arguments \in {"{}", "{\"q\": \"x\"}", "{\"q\": "}}
    \cup {<<Message(ok)>>}

InitDispatch == InitWith({"chat"}, DispatchConfigs)

NextDispatch ==
    \/ InitServer({<<[name |-> a]>>})
    \/ InitServersReturn
    \/ ChatUserInput(UserTexts)
    \/ ChatUserQuit(UserTexts)
    \/ ModelCallBegin(MaxDispatchCalls)
    \/ ModelCall(DispatchOutputs, MaxDispatchCalls)
    \/ CallToolBegin
    \/ ChatDispatch
    \/ ChatDispatchRaises
    \/ ChatMessage

SpecDispatch == InitDispatch /\ [][NextDispatch]_vars

-----------------------------------------------------------------------------
(* Claims *)

ServerNames == {servers[k].name : k \in DOMAIN servers}

HasFinalMarker(r) ==
    \E k \in DOMAIN r.output :
        IsMessage(r.output[k]) /\ Contains(r.output[k].text, FINAL_TOOL_NAME)

\* C1 (as claimed): in the autonomous loop, once a response holds a message
\* containing FINAL_TOOL_NAME, no further model call is issued.
C1_NoModelCallAfterFinalMarker ==
    [][(variant = "analyze" /\ nreq >= 1 /\ HasFinalMarker(response)) => nreq' = nreq]_vars

\* C2: in the interactive loop, when a user turn has ended on a message after
\* n responses that began with a tool call, n dispatches and n + 1 model
\* calls were made in the turn, the message text was printed, and the step
\* taken from there issues no model call.
C2_ChatTurnCounts ==
    [][(variant = "chat" /\ pc = "input" /\ turn.calls > 0)
        => /\ turn.dispatches = turn.toolresp
           /\ turn.calls = turn.toolresp + 1
           /\ printed = <<response.output[1].text>>
           /\ nreq' = nreq]_vars

\* C2 (witness): a turn of two dispatches and three model calls has ended on
\* a printed message.
C2_Witness ==
    /\ variant = "chat"
    /\ pc = "input"
    /\ turn = [calls |-> 3, dispatches |-> 2, toolresp |-> 2]
    /\ printed = <<final_report>>

\* The function_call_output entry the loops build for one dispatch
FunctionCallOutput(d) ==
    [type |-> "function_call_output", call_id |-> d.tool_call.call_id, output |-> d.value]

\* C3 (as claimed): in the batch loop, once the handling of a response with
\* k >= 1 tool calls and no final marker has ended, all k calls have been
\* dispatched and the next request's input holds one function_call_output
\* per call, with its call id and its dispatch output.
C3_BatchResultsSubmitted ==
    (/\ variant = "analyze"
     /\ nreq >= 1
     /\ pc \in {"call", "raised"}
     /\ output_func_call(response) # <<>>
     /\ ~HasFinalMarker(response))
    => /\ pc = "call" \/ exc = "APIError"
       /\ [k \in DOMAIN dispatched |-> dispatched[k].tool_call] = output_func_call(response)
       /\ \A k \in DOMAIN dispatched :
            /\ dispatched[k].raised = "None"
            /\ \E m \in DOMAIN call_kwargs.input :
                 call_kwargs.input[m] = FunctionCallOutput(dispatched[k])

\* C4 (as claimed): a dispatch that fails does not take the loop down.
C4_DispatchFailureCaught ==
    \A k \in DOMAIN dispatched : dispatched[k].raised # "None" => pc # "raised"

\* C5 (as claimed): the catalog init_servers returns has pairwise distinct
\* qualified names, and each splits on the separator into the provider name
\* and the tool name it was built from.
C5_CatalogRoundTrips ==
    pc = "input"
    => /\ \A x, y \in DOMAIN tools : x # y => tools[x].name # tools[y].name
       /\ \A k \in DOMAIN tools :
            split(tools[k].name, TOOL_SEPARATOR) = <<origin[k].server, origin[k].tool>>

\* C6 (as claimed): a tool call named p + "__" + t, p registered, with valid
\* JSON arguments, makes exactly one call_tool call: to p, with t and the
\* parsed arguments.
C6_RoutesByPrefix ==
    \A k \in DOMAIN dispatched : \A p \in ServerNames :
        LET tc == dispatched[k].tool_call
            n == Len(p) + Len(TOOL_SEPARATOR)
        IN  (/\ Len(tc.name) >= n
             /\ SubSeq(tc.name, 1, n) = p \o TOOL_SEPARATOR
             /\ json_loads(tc.arguments).ok)
            => invoked = <<[server |-> p,
                            name |-> SubSeq(tc.name, n + 1, Len(tc.name)),
                            arguments |-> json_loads(tc.arguments).value]>>

\* C6 (amended): a tool call whose name splits on "__" into exactly two
\* parts <<p, t>>, p registered, with valid JSON arguments, makes exactly one
\* call_tool call: to p, with t and the parsed arguments, also when that call
\* fails.
C6_RoutesBySplit ==
    \A k \in DOMAIN dispatched : \A p \in ServerNames :
        LET tc == dispatched[k].tool_call
            parts == split(tc.name, TOOL_SEPARATOR)
        IN  (/\ Len(parts) = 2
             /\ parts[1] = p
             /\ json_loads(tc.arguments).ok)
            => invoked = <<[server |-> p,
                            name |-> parts[2],
                            arguments |-> json_loads(tc.arguments).value]>>

\* C6 (witness): "a___a" with valid arguments was dispatched, call_tool was
\* called once and raised.
C6_Witness ==
    /\ pc = "raised"
    /\ exc = "McpError"
    /\ Len(dispatched) = 1
    /\ dispatched[1].tool_call.name = <<"a", "_", "_", "_", "a">>
    /\ dispatched[1].tool_call.arguments = "{\"q\": \"x\"}"
    /\ Len(invoked) = 1

\* A name that does not split into exactly two non-empty parts
Malformed(name) ==
    LET parts == split(name, TOOL_SEPARATOR)
    IN  Len(parts) # 2 \/ \E k \in DOMAIN parts : parts[k] = <<>>

\* C7 (as claimed, for tool calls whose arguments parse): a tool call with a
\* malformed name fails with the malformed-name error (the ValueError of the
\* two-name unpacking) and no call_tool call is made.
C7_MalformedNameRejected ==
    \A k \in DOMAIN dispatched :
        (/\ Malformed(dispatched[k].tool_call.name)
         /\ json_loads(dispatched[k].tool_call.arguments).ok)
        => dispatched[k].raised = "ValueError" /\ invoked = <<>>

\* C8: when chat_loop has been left, by return or by exception, no provider
\* subprocess is alive, no session is open and the exit stack is empty.
C8_TornDownOnExit ==
    pc \in {"returned", "raised"}
    => /\ running = {}
       /\ stack = <<>>
       /\ \A k \in DOMAIN servers : servers[k].session # "open"

\* C8 (witness): the second provider failed its handshake or listing after
\* both providers were started, and both sessions are closed.
C8_Witness ==
    /\ pc = "raised"
    /\ exc = "McpError"
    /\ i = 2
    /\ \A k \in DOMAIN servers : servers[k].session = "closed"

\* C9 (as claimed): init_servers returns no catalog when a provider name or
\* a tool name contains the separator.
C9_SeparatorRejected ==
    pc = "input"
    => /\ \A name \in ServerNames : ~Contains(name, TOOL_SEPARATOR)
       /\ \A k \in DOMAIN origin : ~Contains(origin[k].tool, TOOL_SEPARATOR)

\* C10 (as claimed): init_servers returns no catalog in which two entries
\* have the same qualified name.
C10_DuplicateRejected ==
    pc = "input"
    => \A x \in DOMAIN tools : \A y \in DOMAIN tools :
          tools[x].name = tools[y].name => x = y

\* The call ids of response number id for which the request built holds a
\* function_call_output entry
SubmittedCallIds(id) ==
    {call_kwargs.input[m].call_id : m \in {n \in DOMAIN call_kwargs.input :
        /\ "call_id" \in DOMAIN call_kwargs.input[n]
        /\ call_kwargs.input[n].call_id[1] = id}}

\* C11 (as claimed): in the batch loop, when a response holds a message with
\* the final marker and tool calls, no request issued afterwards carries a
\* function_call_output for a call id of that response.
C11_MarkedResultsDiscarded ==
    (/\ variant = "analyze"
     /\ pc = "awaiting_model"
     /\ HasFinalMarker(response)
     /\ output_func_call(response) # <<>>)
    => SubmittedCallIds(response.id) = {}

\* C12: once a model call has failed, chat_loop has been left by the
\* exception, and no step follows: no model call, no dispatch, no input.
C12_OracleFailureFatal ==
    exc = "APIError" => pc = "raised" /\ inflight = <<>> /\ ~ENABLED Next

\* C12 (witness): the second model call of a run, made after one dispatch,
\* has failed.
C12_Witness ==
    /\ exc = "APIError"
    /\ nreq = 2
    /\ Len(dispatched) = 1
    /\ dispatched[1].raised = "None"

\* C13: in both loops, the first model request carries no continuation
\* reference (0 stands for none), and every later one carries the id of the
\* response returned last, which is the response to the request before it.
C13_ContinuationIsLastResponse ==
    pc = "awaiting_model"
    => /\ call_kwargs.previous_response_id = response.id
       /\ response.id = nreq - 1

\* C13 (witness): in the interactive loop, the third request of a session
\* is in flight: a tool result sent after a turn that ended on a message.
C13_Witness ==
    /\ variant = "chat"
    /\ pc = "awaiting_model"
    /\ nreq = 3
    /\ previous_id = 1
    /\ call_kwargs.previous_response_id = 2
    /\ IsToolCall(response.output[1])

\* C14: in the interactive loop, the request issued after a response whose
\* first item is a tool call has one input entry, the function_call_output
\* with that call's id and the output of its dispatch; it is issued in the
\* turn of that response, no input() in between.
C14_OnlyToolResultResubmitted ==
    (/\ variant = "chat"
     /\ pc = "awaiting_model"
     /\ nreq >= 2
     /\ IsToolCall(response.output[1]))
    => /\ Len(dispatched) = 1
       /\ dispatched[1].tool_call = response.output[1]
       /\ dispatched[1].raised = "None"
       /\ call_kwargs.input = <<[type |-> "function_call_output",
                                 call_id |-> response.output[1].call_id,
                                 output |-> dispatched[1].value]>>
       /\ turn.calls >= 1
       /\ turn.dispatches = turn.calls

\* C14 (witness): the result of the second tool call in a row is in flight,
\* two model calls after the user's message.
C14_Witness ==
    /\ variant = "chat"
    /\ pc = "awaiting_model"
    /\ turn = [calls |-> 2, dispatches |-> 2, toolresp |-> 2]
    /\ Len(call_kwargs.input) = 1
    /\ call_kwargs.input[1].call_id = <<2, 1>>

\* C15 (as claimed): a tool call whose name is malformed or names no
\* registered provider, and whose arguments are not valid JSON, fails with
\* the name's error (ValueError of the unpacking, KeyError of the lookup),
\* not with the error of the argument parse.
C15_NameErrorBeforeArguments ==
    \A k \in DOMAIN dispatched :
        LET tc == dispatched[k].tool_call
            parts == split(tc.name, TOOL_SEPARATOR)
        IN  (/\ ~json_loads(tc.arguments).ok
             /\ Len(parts) # 2 \/ parts[1] \notin ServerNames)
            => dispatched[k].raised \in {"ValueError", "KeyError"}

\* The texts of the message items of a response, in order
MessageTexts(r) == [k \in DOMAIN output_msg(r) |-> output_msg(r)[k].text]

\* C16 (as claimed): in the batch loop, once the messages of a response have
\* been handled, the text of every message item has been printed as
\* assistant output, those after a message with the final marker too.
C16_AllMessagesSurfaced ==
    (variant = "analyze" /\ pc \in {"dispatch", "awaiting_tool"})
    => printed = MessageTexts(response)

\* C16 (amended): the messages printed as assistant output are those up to
\* and including the first one that contains the final marker; the later
\* ones appear only in the list dump that precedes the message loop.
C16_MessagesSurfacedUpToMarker ==
    (variant = "analyze" /\ pc \in {"dispatch", "awaiting_tool"})
    => /\ dumped = MessageTexts(response)
       /\ Len(printed) <= Len(dumped)
       /\ printed = SubSeq(dumped, 1, Len(printed))
       /\ \A k \in DOMAIN dumped :
            k \in DOMAIN printed
            <=> \A m \in 1..(k - 1) : ~Contains(dumped[m], FINAL_TOOL_NAME)

\* C16 (witness): a response with the final report followed by another
\* message: only the final report was printed as assistant output.
C16_Witness ==
    /\ variant = "analyze"
    /\ pc = "dispatch"
    /\ dumped = <<final_report, ok>>
    /\ printed = <<final_report>>

\* C17: in the interactive loop, only the first item of a response is
\* looked at: at most one tool call per response is dispatched, it is the
\* first item, and every function_call_output in a request carries the call
\* id of the first item of a response.
C17_OnlyFirstItemInspected ==
    variant = "chat"
    => /\ Len(dispatched) <= 1
       /\ Len(invoked) <= 1
       /\ \A k \in DOMAIN dispatched : dispatched[k].tool_call = response.output[1]
       /\ \A k \in DOMAIN printed : printed[k] = response.output[1].text
       /\ \A m \in DOMAIN call_kwargs.input :
            "call_id" \in DOMAIN call_kwargs.input[m]
            => call_kwargs.input[m].call_id[2] = 1

\* C17 (witness): a response held two tool calls; the result of the first
\* is in flight to the model, the second was never dispatched.
C17_Witness ==
    /\ variant = "chat"
    /\ pc = "awaiting_model"
    /\ Len(response.output) = 2
    /\ IsToolCall(response.output[1])
    /\ IsToolCall(response.output[2])
    /\ response.output[2].name # response.output[1].name
    /\ SubmittedCallIds(response.id) = {<<response.id, 1>>}

\* C18: once init_servers has returned, no step changes the catalog, and
\* every model request issued carries it.
C18_CatalogReadOnly ==
    [][/\ pc # "init_servers" => tools' = tools
       /\ (pc = "init_servers" /\ pc' = "input") => tools' = tools
       /\ pc' = "awaiting_model" => call_kwargs'.tools = tools']_vars

\* C18 (witness): a tool result is in flight to the model with the catalog
\* of both providers' tools.
C18_Witness ==
    /\ pc = "awaiting_model"
    /\ nreq = 2
    /\ SubmittedCallIds(1) # {}
    /\ Len(tools) = 2
    /\ call_kwargs.tools = tools

\* C19: at most one model call is in flight; while one is, no tool call is
\* in flight and the previous response has been handled to its end (in the
\* batch loop every tool call of it was dispatched and has returned, in the
\* interactive loop its first item was dispatched or printed); and no two
\* calls are in flight on one provider's session.
C19_OneCallInFlight ==
    /\ \A x, y \in DOMAIN inflight : inflight[x] = inflight[y] => x = y
    /\ (\E k \in DOMAIN inflight : inflight[k] = ModelAwait)
       <=> pc = "awaiting_model"
    /\ pc = "awaiting_model"
       => /\ inflight = <<ModelAwait>>
          /\ \A k \in DOMAIN dispatched : dispatched[k].raised = "None"
          /\ variant = "analyze"
             => [k \in DOMAIN dispatched |-> dispatched[k].tool_call]
                    = output_func_call(response)
          /\ (variant = "chat" /\ nreq >= 2)
             => Len(dispatched) + Len(printed) = 1
    /\ pc = "awaiting_tool" => Len(inflight) = 1
    /\ pc \notin {"awaiting_model", "awaiting_tool"} => inflight = <<>>

\* C19 (witness): in the batch loop the second of two tool calls of one
\* response, both to the same provider, is in flight after the first has
\* returned.
C19_Witness ==
    /\ variant = "analyze"
    /\ pc = "awaiting_tool"
    /\ inflight = <<ToolAwait(fetch)>>
    /\ Len(invoked) = 1
    /\ invoked[1].server = fetch
    /\ Len(output_func_call(response)) = 2

\* C20: in the interactive loop, when input() returns a text that is "exit"
\* or "quit" once trimmed and lower-cased, chat_loop returns: no request is
\* built or issued and nothing is dispatched for it, previous_id keeps its
\* value, and every provider is torn down; any other text starts a turn.
C20_QuitEndsSession ==
    [][(variant = "chat" /\ pc = "input")
        => IF lower(strip(user_text')) \in {<<"e","x","i","t">>, <<"q","u","i","t">>}
           THEN /\ pc' = "returned"
                /\ exc' = "None"
                /\ nreq' = nreq
                /\ call_kwargs' = call_kwargs
                /\ dispatched' = dispatched
                /\ invoked' = invoked
                /\ inflight' = <<>>
                /\ previous_id' = previous_id
                /\ running' = {}
                /\ stack' = <<>>
                /\ \A k \in DOMAIN servers' : servers'[k].session = "closed"
           ELSE /\ pc' = "call"
                /\ call_kwargs'.input = <<[role |-> "user", content |-> user_text']>>]_vars

\* C20 (witness): after a turn of two model calls the user typed a quit
\* word in mixed case between whitespace, and chat_loop has returned with
\* both providers closed.
C20_Witness ==
    /\ pc = "returned"
    /\ user_text = <<"\t","E","x","i","t"," ">>
    /\ nreq = 2
    /\ previous_id = 2
    /\ Len(servers) = 2
    /\ running = {}

====
